---- MODULE Spec2Model ----
(***************************************************************************)
(* A model of the front end of arpitkus/compProject: the AST the parser    *)
(* builds (parser.py, astnode.py), the flowchart generator that walks it   *)
(* (flowchart.py) and the semantic analyzer (semantic.py).                 *)
(*                                                                         *)
(* The recursive walks are run on an explicit call stack: one frame per    *)
(* active call of _process_node / analyze, holding the node, the locals    *)
(* the code keeps across a recursive call and the position to resume at.   *)
(* The graphviz Digraph is the list of node() and edge() declarations the  *)
(* generator makes, in order, with the arguments it passes.                *)
(***************************************************************************)
EXTENDS Integers, Sequences, FiniteSets, TLC

VARIABLES
    ast,          \* the program AST handed to generate / analyze
    pc,           \* "new", "walk", "done", or the exception that ended the call
    stack,        \* call stack of the recursive walk, innermost frame last
    node_count,   \* FlowchartGenerator.node_count
    last_node,    \* FlowchartGenerator.last_node (the cursor)
    merge_stack,  \* FlowchartGenerator.merge_stack
    nodes,        \* dot.node(...) declarations, in order
    edges,        \* dot.edge(...) declarations, in order
    symbols,      \* SemanticAnalyzer.symbols
    errors,       \* SemanticAnalyzer.errors
    visited,      \* history: the var_decl, assign and id nodes the analyzer's
                  \* handlers were called on, in the order of the calls
    tokens,       \* Parser.tokens
    pos,          \* Parser.pos
    error         \* the message of the RuntimeError a parser method raised

vars == <<ast, pc, stack, node_count, last_node, merge_stack, nodes, edges,
          symbols, errors, visited, tokens, pos, error>>

flowVars == <<node_count, last_node, merge_stack, nodes, edges>>
semVars == <<symbols, errors, visited>>
parseVars == <<tokens, pos, error>>

(***************************************************************************)
(* Bounds of the model.                                                    *)
(***************************************************************************)
\* statements in a flowchart program (nested ones included)
MaxStmts == 3
\* statements in an analyzed program (nested ones included)
MaxSemStmts == 2
\* the longest token list of every list over an alphabet
MaxTokens == 5
\* the most operators of an operand-operator chain
MaxOperators == 2

(***************************************************************************)
(* AST nodes.                                                              *)
(***************************************************************************)
\* Python's None, for a node reference, a node value or a node id
None == "None"

ASTNode(nodetype, value, children) ==
    [type |-> nodetype, value |-> value, children |-> children]

\* an absent child (for_stmt adds None for a missing init, cond or update)
NoneNode == ASTNode(None, None, <<>>)

\* `if node:` on a child reference
Truthy(node) == node.type # None

Num(text) == ASTNode("num", text, <<>>)
Id(name) == ASTNode("id", name, <<>>)
TypeSpec == ASTNode("type", "int", <<>>)
Comparison(op, l, r) == ASTNode("comparison", op, <<l, r>>)
ArithExpr(op, l, r) == ASTNode("arith_expr", op, <<l, r>>)
Term(op, l, r) == ASTNode("term", op, <<l, r>>)

VarDecl(name, init) ==
    ASTNode("var_decl", None,
            IF init = NoneNode THEN <<TypeSpec, Id(name)>>
                               ELSE <<TypeSpec, Id(name), init>>)
Assign(name, e) == ASTNode("assign", None, <<Id(name), e>>)
ReturnStmt(e) == ASTNode("return_stmt", None, <<e>>)
GenericStmt(raw_text) == ASTNode("stmt", raw_text, <<>>)
CompoundStmt(stmts) == ASTNode("compound_stmt", None, stmts)
IfStmt(cond, then) == ASTNode("if_stmt", None, <<cond, then>>)
IfElseStmt(cond, then, else) == ASTNode("if_stmt", None, <<cond, then, else>>)
WhileStmt(cond, body) == ASTNode("while", None, <<cond, body>>)
ForStmt(init, cond, upd, body) == ASTNode("for", None, <<init, cond, upd, body>>)
DoWhileStmt(body, cond) == ASTNode("do_while", None, <<body, cond>>)
Function(body) ==
    ASTNode("function", None, <<TypeSpec, ASTNode("main", "main", <<>>), body>>)
Program(body) == ASTNode("program", None, <<Function(body)>>)

\* A statement after which the parser, seeing ELSE, would consume it for an
\* inner if: such a statement cannot be the then-branch of an if with else.
RECURSIVE OpenIf(_)
OpenIf(s) ==
    CASE s.type = "if_stmt" ->
            IF Len(s.children) = 2 THEN TRUE ELSE OpenIf(s.children[3])
      [] s.type = "while" -> OpenIf(s.children[2])
      [] s.type = "for" -> OpenIf(s.children[4])
      [] OTHER -> FALSE

(***************************************************************************)
(* The programs the model runs on: every AST the parser can build from a   *)
(* vocabulary V of simple statements, conditions and for-headers, with a   *)
(* given number of statements.                                             *)
(***************************************************************************)
\* A \cup B, with A counted first: TLC then computes the union against a
\* sorted set
Cup(A, B) == LET a == A IN IF Cardinality(a) >= 0 THEN a \cup B ELSE B

\* the union of the sets of a sequence
RECURSIVE CupOver(_)
CupOver(sets) ==
    IF sets = <<>> THEN {}
    ELSE Cup(CupOver(SubSeq(sets, 1, Len(sets) - 1)), sets[Len(sets)])

\* Grammar(V, max)[n + 1] holds the statements (stmts) and the statement
\* lists (blocks) of exactly n statements, for n in 0..max.
RECURSIVE Grammar(_, _)
Grammar(V, max) ==
    IF max = 0 THEN <<[stmts |-> {}, blocks |-> {<<>>}]>>
    ELSE LET g == Grammar(V, max - 1)
             \* body -> compound_stmt | stmt; the bare statement only where
             \* V.bare says so
             Bodies(n) == Cup({CompoundStmt(b) : b \in g[n + 1].blocks},
                              IF V.bare THEN g[n + 1].stmts ELSE {})
             \* the statements of each kind; IfElses(k): the if with else whose
             \* then-branch has k statements
             Simple == IF max = 1 THEN V.simple ELSE {}
             Ifs == {IfStmt(c, t) : c \in V.conds, t \in Bodies(max - 1)}
             IfElses(k) ==
                {IfElseStmt(c, t, e) :
                    c \in V.conds,
                    t \in {b \in Bodies(k) : ~OpenIf(b)},
                    e \in Bodies(max - 1 - k)}
             Whiles == {WhileStmt(c, b) : c \in V.conds, b \in Bodies(max - 1)}
             Fors == {ForStmt(h[1], h[2], h[3], b) :
                            h \in V.heads, b \in Bodies(max - 1)}
             DoWhiles == {DoWhileStmt(b, c) : b \in Bodies(max - 1), c \in V.conds}
             stmts ==
                CupOver(<<Simple, Ifs, CupOver([k \in 1..max |-> IfElses(k - 1)]),
                          Whiles, Fors, DoWhiles>>)
             \* a statement list that begins with a statement of k statements
             BlocksFrom(k) ==
                {<<s>> \o r : s \in (IF k = max THEN stmts ELSE g[k + 1].stmts),
                             r \in g[max - k + 1].blocks}
             blocks == CupOver([k \in 1..max |-> BlocksFrom(k)])
         IN  Append(g, [stmts |-> stmts, blocks |-> blocks])

\* the blocks of n statements of the grammar table g
BlocksOf(g) == CupOver([n \in 1..Len(g) |-> g[n].blocks])

Programs(V, max) ==
    {Program(CompoundStmt(b)) : b \in BlocksOf(Grammar(V, max))}

XGreater0 == Comparison(">", Id("x"), Num("0"))

\* The programs the flowchart is built for.  Every body is in braces: the
\* generator walks a block by walking its statements in turn (flowchart.py
\* 138-141), so a bare body builds the graph of the block of that statement.
FlowVocabulary ==
    [bare   |-> FALSE,
     simple |-> {Assign("y", Num("1")), VarDecl("x", Num("5"))},
     conds  |-> {XGreater0},
     heads  |-> {<<VarDecl("i", Num("0")), Comparison("<", Id("i"), Num("3")),
                   Assign("i", ArithExpr("+", Id("i"), Num("1")))>>,
                 <<NoneNode, NoneNode, NoneNode>>}]

FlowPrograms == Programs(FlowVocabulary, MaxStmts)

(***************************************************************************)
(* FlowchartGenerator: labels.                                             *)
(***************************************************************************)
RECURSIVE _expr_to_str(_)
_expr_to_str(node) ==
    IF ~Truthy(node) THEN ""
    ELSE IF node.type \in {"num", "id"} THEN node.value
    ELSE IF node.type \in {"comparison", "arith_expr", "term"}
         THEN _expr_to_str(node.children[1]) \o " " \o node.value \o " "
              \o _expr_to_str(node.children[2])
    ELSE node.type

RECURSIVE _formatter(_)
_formatter(node) ==
    CASE node.type = "var_decl" ->
            IF Len(node.children) = 3
            THEN node.children[1].value \o " " \o node.children[2].value
                 \o " = " \o _expr_to_str(node.children[3])
            ELSE node.children[1].value \o " " \o node.children[2].value
      [] node.type = "assign" ->
            node.children[1].value \o " = " \o _expr_to_str(node.children[2])
      [] node.type = "return_stmt" ->
            "return " \o _expr_to_str(node.children[1])
      [] node.type = "stmt" -> node.value
      [] node.type = "if_stmt" ->
            "if (" \o _expr_to_str(node.children[1]) \o ")"
      [] node.type = "while" ->
            "while (" \o _expr_to_str(node.children[1]) \o ")"
      [] node.type = "for" ->
            "for ("
            \o (IF Truthy(node.children[1]) THEN _formatter(node.children[1]) ELSE "")
            \o "; "
            \o (IF Truthy(node.children[2]) THEN _expr_to_str(node.children[2]) ELSE "")
            \o "; "
            \o (IF Truthy(node.children[3]) THEN _formatter(node.children[3]) ELSE "")
            \o ")"
      [] node.type = "do_while" -> "do ... while"
      [] OTHER -> node.type

(***************************************************************************)
(* FlowchartGenerator: the graph.                                          *)
(***************************************************************************)
\* the id _new_node_id returns when it has raised node_count to n
NodeId(n) == "node" \o ToString(n)

DotNode(name, label, shape) ==
    [name |-> name, label |-> label, shape |-> shape, style |-> ""]
\* the node _make_invisible_merge declares
MergeNode(name) ==
    [name |-> name, label |-> "", shape |-> "point", style |-> "invis"]
DotEdge(tail, head, label) == [tail |-> tail, head |-> head, label |-> label]

\* as EdgeFromLast, the edge drawn from the new node to the cursor
EdgeFromLast_Reversed(to) ==
    IF last_node # None THEN <<DotEdge(to, last_node, None)>> ELSE <<>>

\* `if self.last_node: self.dot.edge(self.last_node, to)`
EdgeFromLast(to) ==
    IF last_node # None THEN <<DotEdge(last_node, to, None)>> ELSE <<>>

(***************************************************************************)
(* The call stack.                                                         *)
(***************************************************************************)
Frame(node) ==
    [node |-> node, at |-> "start", i |-> 1,
     decision_id |-> None, before_then |-> 0, then_end |-> None,
     then_entry |-> None, before_else |-> 0,
     cond_id |-> None, before_body |-> 0]

Top == stack[Len(stack)]
Walking == pc = "walk" /\ stack # <<>>
Pop == SubSeq(stack, 1, Len(stack) - 1)
\* the running call moves to `f` and calls itself on `child`
CallFrom(f, child) == Append(Pop, f) \o <<Frame(child)>>

Init ==
    /\ ast \in FlowPrograms
    /\ pc = "new"
    /\ stack = <<>>
    /\ node_count = 0
    /\ last_node = None
    /\ merge_stack = <<>>
    /\ nodes = <<>>
    /\ edges = <<>>
    /\ symbols = {}
    /\ errors = <<>>
    /\ visited = <<>>
    /\ tokens = <<>>
    /\ pos = 0
    /\ error = None

\* generate, up to the call of _process_node on the root
Generate ==
    /\ pc = "new"
    /\ node_count' = node_count + 1
    /\ nodes' = Append(nodes, DotNode(NodeId(node_count + 1), "Start", "oval"))
    /\ last_node' = NodeId(node_count + 1)
    /\ stack' = <<Frame(ast)>>
    /\ pc' = "walk"
    /\ UNCHANGED <<ast, merge_stack, edges, semVars, parseVars>>

\* generate, after _process_node has returned
GenerateEnd ==
    /\ pc = "walk"
    /\ stack = <<>>
    /\ node_count' = node_count + 1
    /\ nodes' = Append(nodes, DotNode(NodeId(node_count + 1), "End", "oval"))
    /\ edges' = edges \o EdgeFromLast(NodeId(node_count + 1))
    /\ pc' = "done"
    /\ UNCHANGED <<ast, stack, last_node, merge_stack, semVars, parseVars>>

BoxTypes == {"var_decl", "assign", "return_stmt", "stmt"}
HandledTypes ==
    BoxTypes \cup {"if_stmt", "while", "for", "do_while", "type", "main"}

\* program / function / compound_stmt, and the fallback: recurse on children
RecurseChildren ==
    /\ Walking
    /\ Top.node.type \notin HandledTypes
    /\ stack' =
         IF Top.i > Len(Top.node.children) THEN Pop
         ELSE IF Truthy(Top.node.children[Top.i])
              THEN CallFrom([Top EXCEPT !.i = @ + 1], Top.node.children[Top.i])
              ELSE Append(Pop, [Top EXCEPT !.i = @ + 1])
    /\ UNCHANGED <<ast, pc, flowVars, semVars, parseVars>>

\* 'type' and 'main': no shape
ProcessStructural ==
    /\ Walking
    /\ Top.node.type \in {"type", "main"}
    /\ stack' = Pop
    /\ UNCHANGED <<ast, pc, flowVars, semVars, parseVars>>

\* var_decl, assign, return_stmt, stmt: a box
ProcessBox ==
    /\ Walking
    /\ Top.node.type \in BoxTypes
    /\ LET box_id == NodeId(node_count + 1) IN
         /\ node_count' = node_count + 1
         /\ nodes' = Append(nodes, DotNode(box_id, _formatter(Top.node), "box"))
         /\ edges' = edges \o EdgeFromLast(box_id)
         /\ last_node' = box_id
    /\ stack' = Pop
    /\ UNCHANGED <<ast, pc, merge_stack, semVars, parseVars>>

\* f'node{before + 1}': the id the code takes for the entry of the subtree
\* it walked after reading node_count as `before`
EntryAfter(before) == NodeId(before + 1)

\* the edges of an if with else, of a while, of a for and of a do_while, in
\* the order the code declares them
\* as IfElseEdges, the else-branch's exit left out of the join
IfElseEdges_ThenOnly(decision_id, then_entry, then_end, else_entry, else_end, merge_id) ==
    <<DotEdge(then_end, merge_id, None),
      DotEdge(decision_id, then_entry, "true"),
      DotEdge(decision_id, else_entry, "false")>>

IfElseEdges(decision_id, then_entry, then_end, else_entry, else_end, merge_id) ==
    <<DotEdge(then_end, merge_id, None),
      DotEdge(else_end, merge_id, None),
      DotEdge(decision_id, then_entry, "true"),
      DotEdge(decision_id, else_entry, "false")>>

\* as WhileEdges, the back edge drawn from the diamond to the body's exit
WhileEdges_BackEdgeReversed(cond_id, body_entry, body_end, merge_id) ==
    <<DotEdge(cond_id, body_entry, "true"),
      DotEdge(cond_id, body_end, None),
      DotEdge(cond_id, merge_id, "false")>>

WhileEdges(cond_id, body_entry, body_end, merge_id) ==
    <<DotEdge(cond_id, body_entry, "true"),
      DotEdge(body_end, cond_id, None),
      DotEdge(cond_id, merge_id, "false")>>

\* as ForEdges, without the edge into the join
ForEdges_NoFalseEdge(cond_id, body_entry, body_end, upd_id, merge_id) ==
    <<DotEdge(cond_id, body_entry, "true")>>
    \o (IF upd_id # None
        THEN <<DotEdge(body_end, upd_id, None), DotEdge(upd_id, cond_id, None)>>
        ELSE <<DotEdge(body_end, cond_id, None)>>)

ForEdges(cond_id, body_entry, body_end, upd_id, merge_id) ==
    <<DotEdge(cond_id, body_entry, "true")>>
    \o (IF upd_id # None
        THEN <<DotEdge(body_end, upd_id, None), DotEdge(upd_id, cond_id, None)>>
        ELSE <<DotEdge(body_end, cond_id, None)>>)
    \o <<DotEdge(cond_id, merge_id, "false")>>

DoWhileEdges(cond_id, body_entry, body_end, merge_id) ==
    <<DotEdge(body_end, cond_id, None),
      DotEdge(cond_id, body_entry, "true"),
      DotEdge(cond_id, merge_id, "false")>>

\* _make_invisible_merge, called when node_count is n: the merge node's id
\* and the declarations after it
MergeId(n) == NodeId(n + 1)
NodesWithMerge(n) == Append(nodes, MergeNode(MergeId(n)))

\* if_stmt, up to the walk of the then-branch
IfStart ==
    /\ Walking
    /\ Top.node.type = "if_stmt"
    /\ Top.at = "start"
    /\ LET decision_id == NodeId(node_count + 1) IN
         /\ node_count' = node_count + 1
         /\ nodes' = Append(nodes, DotNode(decision_id, _formatter(Top.node), "diamond"))
         /\ edges' = edges \o EdgeFromLast(decision_id)
         /\ last_node' = decision_id
         /\ stack' = CallFrom([Top EXCEPT !.at = "after_then",
                                          !.decision_id = decision_id,
                                          !.before_then = node_count + 1],
                              Top.node.children[2])
    /\ UNCHANGED <<ast, pc, merge_stack, semVars, parseVars>>

\* if_stmt with an else-branch, from the return of the then-walk up to the
\* walk of the else-branch
IfElseBranch ==
    /\ Walking
    /\ Top.node.type = "if_stmt"
    /\ Top.at = "after_then"
    /\ Len(Top.node.children) = 3
    /\ last_node' = Top.decision_id
    /\ stack' = CallFrom([Top EXCEPT !.at = "after_else",
                                     !.then_end = last_node,
                                     !.then_entry = EntryAfter(Top.before_then),
                                     !.before_else = node_count],
                         Top.node.children[3])
    /\ UNCHANGED <<ast, pc, node_count, merge_stack, nodes, edges, semVars, parseVars>>

\* if_stmt with an else-branch, after the else-walk: the merge
IfElseMerge ==
    /\ Walking
    /\ Top.node.type = "if_stmt"
    /\ Top.at = "after_else"
    /\ LET else_end == last_node
           else_entry == EntryAfter(Top.before_else)
           merge_id == MergeId(node_count)
       IN
         /\ node_count' = node_count + 1
         /\ nodes' = NodesWithMerge(node_count)
         /\ merge_stack' = Append(merge_stack, merge_id)
         /\ edges' = edges \o IfElseEdges(Top.decision_id, Top.then_entry, Top.then_end,
                                           else_entry, else_end, merge_id)
         /\ last_node' = merge_id
    /\ stack' = Pop
    /\ UNCHANGED <<ast, pc, semVars, parseVars>>

\* if_stmt without an else-branch, after the then-walk: the merge is made or
\* reused and the true edge drawn; the false edge names `mergerId`, which is
\* bound nowhere, so the call ends in a NameError
IfNoElse ==
    /\ Walking
    /\ Top.node.type = "if_stmt"
    /\ Top.at = "after_then"
    /\ Len(Top.node.children) # 3
    /\ LET then_end == last_node
           then_entry == EntryAfter(Top.before_then)
           reused == merge_stack # <<>> /\ then_end = merge_stack[Len(merge_stack)]
           merge_id == IF reused THEN then_end ELSE MergeId(node_count)
       IN
         /\ node_count' = IF reused THEN node_count ELSE node_count + 1
         /\ nodes' = IF reused THEN nodes ELSE NodesWithMerge(node_count)
         /\ merge_stack' = IF reused THEN merge_stack ELSE Append(merge_stack, merge_id)
         /\ edges' = edges
                     \o (IF reused THEN <<>> ELSE <<DotEdge(then_end, merge_id, None)>>)
                     \o <<DotEdge(Top.decision_id, then_entry, "true")>>
    /\ pc' = "NameError"
    /\ UNCHANGED <<ast, stack, last_node, semVars, parseVars>>

\* while, up to the walk of the body
WhileStart ==
    /\ Walking
    /\ Top.node.type = "while"
    /\ Top.at = "start"
    /\ LET cond_id == NodeId(node_count + 1) IN
         /\ node_count' = node_count + 1
         /\ nodes' = Append(nodes, DotNode(cond_id, _formatter(Top.node), "diamond"))
         /\ edges' = edges \o EdgeFromLast(cond_id)
         /\ last_node' = None
         /\ stack' = CallFrom([Top EXCEPT !.at = "after_body",
                                          !.cond_id = cond_id,
                                          !.before_body = node_count + 1],
                              Top.node.children[2])
    /\ UNCHANGED <<ast, pc, merge_stack, semVars, parseVars>>

\* while, after the walk of the body
WhileAfterBody ==
    /\ Walking
    /\ Top.node.type = "while"
    /\ Top.at = "after_body"
    /\ LET body_end == last_node
           body_entry == EntryAfter(Top.before_body)
           merge_id == MergeId(node_count)
       IN
         /\ node_count' = node_count + 1
         /\ nodes' = NodesWithMerge(node_count)
         /\ edges' = edges \o WhileEdges(Top.cond_id, body_entry, body_end, merge_id)
         /\ last_node' = merge_id
    /\ stack' = Pop
    /\ UNCHANGED <<ast, pc, merge_stack, semVars, parseVars>>

\* for, with an init clause: the walk of the init clause
ForInit ==
    /\ Walking
    /\ Top.node.type = "for"
    /\ Top.at = "start"
    /\ Truthy(Top.node.children[1])
    /\ stack' = CallFrom([Top EXCEPT !.at = "cond"], Top.node.children[1])
    /\ UNCHANGED <<ast, pc, flowVars, semVars, parseVars>>

\* for, from the condition diamond up to the walk of the body
ForCond ==
    /\ Walking
    /\ Top.node.type = "for"
    /\ \/ Top.at = "cond"
       \/ Top.at = "start" /\ ~Truthy(Top.node.children[1])
    /\ LET cond_id == NodeId(node_count + 1)
           cond_label == IF Truthy(Top.node.children[2])
                         THEN _expr_to_str(Top.node.children[2]) ELSE ""
       IN
         /\ node_count' = node_count + 1
         /\ nodes' = Append(nodes, DotNode(cond_id, "for_cond (" \o cond_label \o ")",
                                           "diamond"))
         /\ edges' = edges \o EdgeFromLast(cond_id)
         /\ last_node' = None
         /\ stack' = CallFrom([Top EXCEPT !.at = "after_body",
                                          !.cond_id = cond_id,
                                          !.before_body = node_count + 1],
                              Top.node.children[4])
    /\ UNCHANGED <<ast, pc, merge_stack, semVars, parseVars>>

\* for, after the walk of the body: the update clause and the merge
ForAfterBody ==
    /\ Walking
    /\ Top.node.type = "for"
    /\ Top.at = "after_body"
    /\ LET body_end == last_node
           body_entry == EntryAfter(Top.before_body)
           upd_node == Top.node.children[3]
           upd_id == NodeId(node_count + 1)
           n == IF Truthy(upd_node) THEN node_count + 1 ELSE node_count
           merge_id == MergeId(n)
       IN
         /\ node_count' = n + 1
         /\ nodes' = (IF Truthy(upd_node)
                      THEN Append(nodes, DotNode(upd_id, _formatter(upd_node), "box"))
                      ELSE nodes)
                     \o <<MergeNode(merge_id)>>
         /\ edges' = edges \o ForEdges(Top.cond_id, body_entry, body_end,
                                        IF Truthy(upd_node) THEN upd_id ELSE None,
                                        merge_id)
         /\ last_node' = merge_id
    /\ stack' = Pop
    /\ UNCHANGED <<ast, pc, merge_stack, semVars, parseVars>>

\* as DoWhileStart, the cursor cleared for the body as a while does
DoWhileStart_ClearsCursor ==
    /\ Walking
    /\ Top.node.type = "do_while"
    /\ Top.at = "start"
    /\ last_node' = None
    /\ stack' = CallFrom([Top EXCEPT !.at = "after_body",
                                     !.before_body = node_count],
                         Top.node.children[1])
    /\ UNCHANGED <<ast, pc, node_count, merge_stack, nodes, edges, semVars, parseVars>>

\* do_while, up to the walk of the body
DoWhileStart ==
    /\ Walking
    /\ Top.node.type = "do_while"
    /\ Top.at = "start"
    /\ stack' = CallFrom([Top EXCEPT !.at = "after_body",
                                     !.before_body = node_count],
                         Top.node.children[1])
    /\ UNCHANGED <<ast, pc, flowVars, semVars, parseVars>>

\* do_while, after the walk of the body
DoWhileAfterBody ==
    /\ Walking
    /\ Top.node.type = "do_while"
    /\ Top.at = "after_body"
    /\ LET body_end == last_node
           cond_id == NodeId(node_count + 1)
           cond_label == _expr_to_str(Top.node.children[2])
           body_entry == EntryAfter(Top.before_body)
           merge_id == MergeId(node_count + 1)
       IN
         /\ node_count' = node_count + 2
         /\ nodes' = nodes \o <<DotNode(cond_id, "while (" \o cond_label \o ")", "diamond"),
                                 MergeNode(merge_id)>>
         /\ edges' = edges \o DoWhileEdges(cond_id, body_entry, body_end, merge_id)
         /\ last_node' = merge_id
    /\ stack' = Pop
    /\ UNCHANGED <<ast, pc, merge_stack, semVars, parseVars>>

Next ==
    \/ Generate
    \/ RecurseChildren
    \/ ProcessStructural
    \/ ProcessBox
    \/ IfStart
    \/ IfElseBranch
    \/ IfElseMerge
    \/ IfNoElse
    \/ WhileStart
    \/ WhileAfterBody
    \/ ForInit
    \/ ForCond
    \/ ForAfterBody
    \/ DoWhileStart
    \/ DoWhileAfterBody
    \/ GenerateEnd

Spec == Init /\ [][Next]_vars

(***************************************************************************)
(* SemanticAnalyzer.                                                       *)
(***************************************************************************)
\* The programs that are analyzed, with bare and braced bodies.
SemVocabulary ==
    [bare   |-> TRUE,
     simple |-> {VarDecl("x", NoneNode),
                 VarDecl("y", Id("x")),
                 VarDecl("x", ArithExpr("+", Id("x"), Num("1"))),
                 Assign("y", Num("3")),
                 Assign("x", Term("*", Id("x"), Id("y"))),
                 ReturnStmt(Id("y")),
                 GenericStmt("cout << x ;")},
     conds  |-> {XGreater0},
     heads  |-> {<<VarDecl("y", Num("0")), Comparison("<", Id("y"), Num("3")),
                   Assign("y", ArithExpr("+", Id("y"), Num("1")))>>,
                 <<Assign("x", Num("0")), XGreater0, NoneNode>>,
                 <<NoneNode, NoneNode, NoneNode>>}]

SemPrograms == Programs(SemVocabulary, MaxSemStmts)

AlreadyDeclared(var_name) ==
    "Semantic Error: Variable '" \o var_name \o "' already declared"
UsedBeforeDeclaration(var_name) ==
    "Semantic Error: Variable '" \o var_name \o "' used before declaration"

\* the node types with a visit_ method; every other type gets generic_visit
VisitTypes ==
    {"var_decl", "assign", "id", "if_stmt", "while", "for", "do_while", "return_stmt"}

\* the children a handler hands to analyze, in the order of its calls
IfStmtCalls(node) ==
    <<node.children[1], node.children[2]>>
    \o (IF Len(node.children) = 3 THEN <<node.children[3]>> ELSE <<>>)
WhileCalls(node) == <<node.children[1], node.children[2]>>
\* as ForCalls, the header clauses analyzed whether present or not
ForCalls_Unguarded(node) ==
    <<node.children[1], node.children[2], node.children[3], node.children[4]>>
ForCalls(node) ==
    (IF Truthy(node.children[1]) THEN <<node.children[1]>> ELSE <<>>)
    \o (IF Truthy(node.children[2]) THEN <<node.children[2]>> ELSE <<>>)
    \o (IF Truthy(node.children[3]) THEN <<node.children[3]>> ELSE <<>>)
    \o <<node.children[4]>>
\* as DoWhileCalls, the condition analyzed before the body
DoWhileCalls_CondFirst(node) == <<node.children[2], node.children[1]>>
DoWhileCalls(node) == <<node.children[1], node.children[2]>>
ReturnStmtCalls(node) == <<node.children[1]>>

\* as DeclErrors, every declaration reported
DeclErrors_Always(var_name) == Append(errors, AlreadyDeclared(var_name))

\* errors after the duplicate check of visit_var_decl
DeclErrors(var_name) ==
    IF var_name \in symbols
    THEN Append(errors, AlreadyDeclared(var_name))
    ELSE errors

\* as UseErrors, the test inverted
UseErrors_Inverted(var_name) ==
    IF var_name \in symbols
    THEN Append(errors, UsedBeforeDeclaration(var_name))
    ELSE errors

\* errors after the declaration check of visit_assign and of visit_id
UseErrors(var_name) ==
    IF var_name \notin symbols
    THEN Append(errors, UsedBeforeDeclaration(var_name))
    ELSE errors

\* the running handler makes its next call of analyze, or returns after the last
VisitEach(calls) ==
    stack' = IF Top.i > Len(calls) THEN Pop
             ELSE CallFrom([Top EXCEPT !.i = @ + 1], calls[Top.i])

SemInit ==
    /\ ast \in SemPrograms
    /\ pc = "new"
    /\ stack = <<>>
    /\ node_count = 0
    /\ last_node = None
    /\ merge_stack = <<>>
    /\ nodes = <<>>
    /\ edges = <<>>
    /\ symbols = {}
    /\ errors = <<>>
    /\ visited = <<>>
    /\ tokens = <<>>
    /\ pos = 0
    /\ error = None

\* analyzer.analyze(ast) is called on the fresh analyzer
Analyze ==
    /\ pc = "new"
    /\ stack' = <<Frame(ast)>>
    /\ pc' = "walk"
    /\ UNCHANGED <<ast, flowVars, parseVars, semVars>>

\* the outermost analyze has returned
AnalyzeEnd ==
    /\ pc = "walk"
    /\ stack = <<>>
    /\ pc' = "done"
    /\ UNCHANGED <<ast, stack, flowVars, parseVars, semVars>>

\* analyze on a node without a visit_ method: generic_visit.  analyze reads
\* node.type first, which raises AttributeError when it is handed None.
GenericVisit ==
    /\ Walking
    /\ Top.node.type \notin VisitTypes
    /\ IF ~Truthy(Top.node)
       THEN pc' = "AttributeError" /\ stack' = stack
       ELSE /\ pc' = pc
            /\ stack' =
                 IF Top.i > Len(Top.node.children) THEN Pop
                 ELSE IF Truthy(Top.node.children[Top.i])
                      THEN CallFrom([Top EXCEPT !.i = @ + 1], Top.node.children[Top.i])
                      ELSE Append(Pop, [Top EXCEPT !.i = @ + 1])
    /\ UNCHANGED <<ast, flowVars, parseVars, semVars>>

\* visit_var_decl, up to the analysis of the initializer
VisitVarDecl ==
    /\ Walking
    /\ Top.node.type = "var_decl"
    /\ Top.at = "start"
    /\ LET var_name == Top.node.children[2].value IN
         /\ errors' = DeclErrors(var_name)
         /\ symbols' = IF var_name \in symbols THEN symbols
                        ELSE symbols \cup {var_name}
    /\ visited' = Append(visited, Top.node)
    /\ stack' = IF Len(Top.node.children) = 3
                THEN CallFrom([Top EXCEPT !.at = "return"], Top.node.children[3])
                ELSE Pop
    /\ UNCHANGED <<ast, pc, flowVars, parseVars>>

\* visit_assign, up to the analysis of the right-hand side
VisitAssign ==
    /\ Walking
    /\ Top.node.type = "assign"
    /\ Top.at = "start"
    /\ LET var_name == Top.node.children[1].value IN
         errors' = UseErrors(var_name)
    /\ visited' = Append(visited, Top.node)
    /\ stack' = CallFrom([Top EXCEPT !.at = "return"], Top.node.children[2])
    /\ UNCHANGED <<ast, pc, flowVars, parseVars, symbols>>

\* visit_var_decl and visit_assign return after their last call of analyze
VisitReturn ==
    /\ Walking
    /\ Top.node.type \in {"var_decl", "assign"}
    /\ Top.at = "return"
    /\ stack' = Pop
    /\ UNCHANGED <<ast, pc, flowVars, parseVars, semVars>>

VisitId ==
    /\ Walking
    /\ Top.node.type = "id"
    /\ LET var_name == Top.node.value IN
         errors' = UseErrors(var_name)
    /\ visited' = Append(visited, Top.node)
    /\ stack' = Pop
    /\ UNCHANGED <<ast, pc, flowVars, parseVars, symbols>>

VisitIfStmt ==
    /\ Walking
    /\ Top.node.type = "if_stmt"
    /\ VisitEach(IfStmtCalls(Top.node))
    /\ UNCHANGED <<ast, pc, flowVars, parseVars, semVars>>

VisitWhile ==
    /\ Walking
    /\ Top.node.type = "while"
    /\ VisitEach(WhileCalls(Top.node))
    /\ UNCHANGED <<ast, pc, flowVars, parseVars, semVars>>

VisitFor ==
    /\ Walking
    /\ Top.node.type = "for"
    /\ VisitEach(ForCalls(Top.node))
    /\ UNCHANGED <<ast, pc, flowVars, parseVars, semVars>>

VisitDoWhile ==
    /\ Walking
    /\ Top.node.type = "do_while"
    /\ VisitEach(DoWhileCalls(Top.node))
    /\ UNCHANGED <<ast, pc, flowVars, parseVars, semVars>>

VisitReturnStmt ==
    /\ Walking
    /\ Top.node.type = "return_stmt"
    /\ VisitEach(ReturnStmtCalls(Top.node))
    /\ UNCHANGED <<ast, pc, flowVars, parseVars, semVars>>

SemNext ==
    \/ Analyze
    \/ GenericVisit
    \/ VisitVarDecl
    \/ VisitAssign
    \/ VisitReturn
    \/ VisitId
    \/ VisitIfStmt
    \/ VisitWhile
    \/ VisitFor
    \/ VisitDoWhile
    \/ VisitReturnStmt
    \/ AnalyzeEnd

SemSpec == SemInit /\ [][SemNext]_vars

(***************************************************************************)
(* Parser.  A method is an operator of `self`, the parser it is called on:  *)
(* its tokens, its position, the message of the RuntimeError raised (None   *)
(* while none is) and `values`, the values the running methods hold: the    *)
(* node under construction, the token eat returned, the node a call         *)
(* returned, the last one on top.  A method gives the parser as it leaves   *)
(* it, the node it returns on top of `values`; after a raise no method      *)
(* changes the parser any more.  A `while` of the code is the operator      *)
(* named _loop.                                                             *)
(***************************************************************************)
Token(type, value) == [type |-> type, value |-> value]
EOF == Token("EOF", None)

\* Parser.__init__
Parser(toks) == [tokens |-> toks, pos |-> 0, raised |-> None, values |-> <<>>]

\* no RuntimeError has been raised
Ok(self) == self.raised = None
Raise(self, message) == [self EXCEPT !.raised = message]

\* the value on top and the values under it
Last(values) == values[Len(values)]
Front(values) == SubSeq(values, 1, Len(values) - 1)

\* a value is held / the value on top is let go
Push(self, value) == [self EXCEPT !.values = Append(@, value)]
Drop(self) == IF Ok(self) THEN [self EXCEPT !.values = Front(@)] ELSE self

\* Parser.current
current(self) ==
    IF self.pos < Len(self.tokens) THEN self.tokens[self.pos + 1] ELSE EOF

\* f"{tok}" of a token dict
TokenRepr(tok) ==
    "{'type': '" \o tok.type \o "', 'value': "
    \o (IF tok.value = None THEN "None" ELSE "'" \o tok.value \o "'") \o "}"

ExpectedButGot(token_type, cur) ==
    "Expected token type " \o token_type \o " but got " \o cur.type
    \o " (" \o cur.value \o ")"

\* Parser.eat: the token it returns is on top of the values
eat(self, token_type) ==
    IF ~Ok(self) THEN self
    ELSE IF current(self).type = token_type
         THEN [self EXCEPT !.pos = @ + 1, !.values = Append(@, current(self))]
         ELSE Raise(self, ExpectedButGot(token_type, current(self)))

\* self.eat(token_type), the token it returns not used
skip(self, token_type) == Drop(eat(self, token_type))

\* node = ASTNode(nodetype)
New(self, nodetype) ==
    IF Ok(self) THEN Push(self, ASTNode(nodetype, None, <<>>)) ELSE self

\* node.add_child(value), value on top of the values and node under it
add_child(self) ==
    IF ~Ok(self) THEN self
    ELSE [self EXCEPT !.values =
            Append(Front(Front(@)),
                   [Last(Front(@)) EXCEPT !.children = Append(@, Last(self.values))])]

\* ASTNode(nodetype, tok['value']) of the token on top of the values
leaf(self, nodetype) ==
    IF ~Ok(self) THEN self
    ELSE [self EXCEPT !.values =
            Append(Front(@), ASTNode(nodetype, Last(@).value, <<>>))]

\* node.add_child(ASTNode(nodetype, tok['value']))
add_leaf(self, nodetype) == add_child(leaf(self, nodetype))

\* new_node = ASTNode(nodetype, op_tok['value']); new_node.add_child(node),
\* op_tok on top of the values and node under it
new_node(self, nodetype) ==
    IF ~Ok(self) THEN self
    ELSE [self EXCEPT !.values =
            Append(Front(Front(@)),
                   ASTNode(nodetype, Last(@).value, <<Last(Front(@))>>))]

IsOp(tok, values) == tok.type = "OP" /\ tok.value \in values

CmpOps == {"<", ">", "==", "!=", "<=", ">="}
AddOps == {"+", "-"}
MulOps == {"*", "/", "%"}

RECURSIVE expr(_), arith_expr(_), arith_loop(_), term(_), term_loop(_), factor(_)

\* factor -> NUM | ID | '(' expr ')'
factor(self) ==
    IF ~Ok(self) THEN self
    ELSE CASE current(self).type = "NUM" -> leaf(eat(self, "NUM"), "num")
           [] current(self).type = "ID" -> leaf(eat(self, "ID"), "id")
           [] current(self).type = "LPAREN" ->
                 skip(expr(skip(self, "LPAREN")), "RPAREN")
           [] OTHER ->
                 Raise(self, "Unexpected factor token " \o TokenRepr(current(self)))

\* as term_loop, the operand on the right parsed as a whole term
term_loop_RightAssociative(self) ==
    IF Ok(self) /\ IsOp(current(self), MulOps)
    THEN add_child(term(new_node(eat(self, "OP"), "term")))
    ELSE self

\* the while of term: the tree built so far is on top of the values
term_loop(self) ==
    IF Ok(self) /\ IsOp(current(self), MulOps)
    THEN term_loop(add_child(factor(new_node(eat(self, "OP"), "term"))))
    ELSE self

\* term -> factor ( mulop factor )*, mulop one of * / %
term(self) == term_loop(factor(self))

\* the while of arith_expr
arith_loop(self) ==
    IF Ok(self) /\ IsOp(current(self), AddOps)
    THEN arith_loop(add_child(term(new_node(eat(self, "OP"), "arith_expr"))))
    ELSE self

\* arith_expr -> term ( addop term )*, addop one of + -
arith_expr(self) == arith_loop(term(self))

\* the if of expr: one comparison operator and its right operand
comparison(self) ==
    IF Ok(self) /\ IsOp(current(self), CmpOps)
    THEN add_child(arith_expr(new_node(eat(self, "OP"), "comparison")))
    ELSE self

\* expr -> arith_expr ( cmpop arith_expr )?
expr(self) == comparison(arith_expr(self))

RECURSIVE compound_stmt(_), stmt_loop(_), stmt(_), block_or_stmt(_),
          if_stmt(_), while_stmt(_), for_stmt(_), do_while_stmt(_)

\* type_spec -> 'int'
type_spec(self) == leaf(eat(self, "INT"), "type")

\* " ".join(text_tokens).  The code strips the result; a token value begins
\* and ends with a character of its pattern, never a blank, so nothing is
\* stripped.
RECURSIVE Join(_)
Join(text_tokens) ==
    IF text_tokens = <<>> THEN ""
    ELSE IF Len(text_tokens) = 1 THEN Head(text_tokens)
    ELSE Head(text_tokens) \o " " \o Join(Tail(text_tokens))

\* text_tokens.append(value), text_tokens on top of the values
text_append(self, value) ==
    [self EXCEPT !.values = Append(Front(@), Append(Last(@), value))]

\* the while of the generic statement: the tokens up to the next SEMI or the
\* end
RECURSIVE generic_loop(_)
generic_loop(self) ==
    IF current(self).type # "SEMI" /\ current(self).type # "EOF"
    THEN generic_loop([text_append(self, current(self).value) EXCEPT !.pos = @ + 1])
    ELSE self

\* text_tokens.append(self.eat('SEMI')['value']) if a SEMI is there
generic_semi(self) ==
    IF current(self).type = "SEMI"
    THEN text_append(Drop(eat(self, "SEMI")), current(self).value)
    ELSE self

\* ASTNode('stmt', raw_text)
generic_node(self) ==
    [self EXCEPT !.values = Append(Front(@), ASTNode("stmt", Join(Last(@)), <<>>))]

\* the generic statement of stmt
generic_stmt(self) == generic_node(generic_semi(generic_loop(Push(self, <<>>))))

\* the optional initializer of var_decl
var_decl_init(self) ==
    IF Ok(self) /\ IsOp(current(self), {"="})
    THEN add_child(expr(skip(self, "OP")))
    ELSE self

\* var_decl -> 'int' ID [ '=' expr ] ';'
var_decl(self) ==
    skip(var_decl_init(add_leaf(eat(add_child(type_spec(New(self, "var_decl"))),
                                    "ID"), "id")),
         "SEMI")

\* assign_expr -> ID '=' expr, the operator eaten as any OP
assign_expr(self) ==
    add_child(expr(skip(add_leaf(eat(New(self, "assign"), "ID"), "id"), "OP")))

\* assign_stmt -> ID '=' expr ';', the operator eaten as any OP
assign_stmt(self) ==
    skip(add_child(expr(skip(add_leaf(eat(New(self, "assign"), "ID"), "id"), "OP"))),
         "SEMI")

\* return_stmt -> 'return' expr ';'
return_stmt(self) ==
    skip(add_child(expr(skip(New(self, "return_stmt"), "RETURN"))), "SEMI")

\* the token after the current one, as stmt reads it
next_tok(self) ==
    IF self.pos + 1 < Len(self.tokens) THEN self.tokens[self.pos + 2]
    ELSE Token("EOF", None)

\* as StmtOnId, without the lookahead: every ID starts an assignment
StmtOnId_NoLookahead(self) == assign_stmt(self)

\* stmt on an ID: assignment or generic statement, by the next token
StmtOnId(self) ==
    IF IsOp(next_tok(self), {"="}) THEN assign_stmt(self) ELSE generic_stmt(self)

stmt(self) ==
    IF ~Ok(self) THEN self
    ELSE CASE current(self).type = "INT" -> var_decl(self)
           [] current(self).type = "ID" -> StmtOnId(self)
           [] current(self).type = "IF" -> if_stmt(self)
           [] current(self).type = "RETURN" -> return_stmt(self)
           [] current(self).type = "WHILE" -> while_stmt(self)
           [] current(self).type = "FOR" -> for_stmt(self)
           [] current(self).type = "DO" -> do_while_stmt(self)
           [] OTHER ->
                 Raise(self, "Unexpected token in stmt(): " \o TokenRepr(current(self)))

StmtStart == {"INT", "ID", "IF", "RETURN", "WHILE", "FOR", "DO"}

\* the while of compound_stmt
stmt_loop(self) ==
    IF Ok(self) /\ current(self).type \in StmtStart
    THEN stmt_loop(add_child(stmt(self)))
    ELSE self

\* compound_stmt -> '{' stmt* '}'
compound_stmt(self) ==
    skip(stmt_loop(skip(New(self, "compound_stmt"), "LBRACE")), "RBRACE")

\* a branch or loop body: compound_stmt on LBRACE, else stmt
block_or_stmt(self) ==
    IF ~Ok(self) THEN self
    ELSE IF current(self).type = "LBRACE" THEN compound_stmt(self) ELSE stmt(self)

\* the optional else-branch of if_stmt
if_else(self) ==
    IF Ok(self) /\ current(self).type = "ELSE"
    THEN add_child(block_or_stmt(skip(self, "ELSE")))
    ELSE self

\* if_stmt -> 'if' '(' expr ')' body [ 'else' body ]
if_stmt(self) ==
    if_else(add_child(block_or_stmt(
        skip(add_child(expr(skip(skip(New(self, "if_stmt"), "IF"), "LPAREN"))),
             "RPAREN"))))

\* while_stmt -> 'while' '(' expr ')' body
while_stmt(self) ==
    add_child(block_or_stmt(
        skip(add_child(expr(skip(skip(New(self, "while"), "WHILE"), "LPAREN"))),
             "RPAREN")))

\* the INIT clause of for_stmt: init_node
for_init(self) ==
    IF ~Ok(self) THEN self
    ELSE IF current(self).type = "INT" THEN var_decl(self)
    ELSE IF current(self).type = "ID" THEN assign_stmt(self)
    ELSE skip(Push(self, NoneNode), "SEMI")

\* the COND clause of for_stmt: cond_node
for_cond(self) ==
    IF ~Ok(self) THEN self
    ELSE IF current(self).type # "SEMI" THEN skip(expr(self), "SEMI")
    ELSE skip(Push(self, NoneNode), "SEMI")

\* the UPDATE clause of for_stmt: upd_node
for_upd(self) ==
    IF ~Ok(self) THEN self
    ELSE IF current(self).type = "ID" THEN assign_expr(self)
    ELSE Push(self, NoneNode)

\* for_stmt -> 'for' '(' ( var_decl | assign_stmt | ';' ) expr? ';'
\*             assign_expr? ')' body
for_stmt(self) ==
    add_child(block_or_stmt(
        skip(add_child(for_upd(add_child(for_cond(add_child(for_init(
                 skip(skip(New(self, "for"), "FOR"), "LPAREN"))))))),
             "RPAREN")))

\* do_while_stmt -> 'do' body 'while' '(' expr ')' ';'
do_while_stmt(self) ==
    skip(skip(add_child(expr(
                 skip(skip(add_child(block_or_stmt(skip(New(self, "do_while"), "DO"))),
                           "WHILE"),
                      "LPAREN"))),
              "RPAREN"),
         "SEMI")

\* function -> type_spec 'main' '(' ')' compound_stmt
function(self) ==
    add_child(compound_stmt(
        skip(skip(add_leaf(eat(add_child(type_spec(New(self, "function"))), "MAIN"),
                           "main"),
                  "LPAREN"),
             "RPAREN")))

\* program -> function
program(self) == add_child(function(New(self, "program")))

\* Parser.parse
parse(self) == program(self)

(***************************************************************************)
(* The token lists the parser is run on, as the lexer builds them.          *)
(***************************************************************************)
ID(name) == Token("ID", name)
NUM(digits) == Token("NUM", digits)
OP(text) == Token("OP", text)
INT == Token("INT", "int")
MAIN == Token("MAIN", "main")
IF_ == Token("IF", "if")
ELSE_ == Token("ELSE", "else")
WHILE == Token("WHILE", "while")
FOR == Token("FOR", "for")
DO == Token("DO", "do")
RETURN == Token("RETURN", "return")
LPAREN == Token("LPAREN", "(")
RPAREN == Token("RPAREN", ")")
LBRACE == Token("LBRACE", "{")
RBRACE == Token("RBRACE", "}")
SEMI == Token("SEMI", ";")

\* every list of at most n tokens of the alphabet
TokenLists(alphabet, n) == UNION {[1..k -> alphabet] : k \in 0..n}

ExprAlphabet == {ID("a"), OP("-"), OP("*"), OP("<"), LPAREN, RPAREN}
StmtAlphabet == {ID("x"), OP("="), OP("<"), NUM("1"), SEMI, RBRACE}

\* operand (operator operand)*, with at most n operators
Operands == {<<ID("a")>>, <<NUM("1")>>, <<LPAREN, ID("a"), OP("-"), NUM("1"), RPAREN>>}
ChainOps == {OP("+"), OP("-"), OP("*"), OP("/"), OP("%"), OP("<")}
RECURSIVE Chains(_)
Chains(n) ==
    IF n = 0 THEN Operands
    ELSE LET shorter == Chains(n - 1) IN
         Cup(shorter, {c \o <<o>> \o d : c \in shorter, o \in ChainOps, d \in Operands})

\* `int main ( ) {`, then any tokens
Header == <<INT, MAIN, LPAREN, RPAREN, LBRACE>>
ProgramInputs(n) ==
    Cup({Header \o s : s \in TokenLists(StmtAlphabet, n)},
        {SubSeq(Header, 1, k) : k \in 0..4})

\* for statements, each clause of the header present, absent or not an
\* assignment
ForInputs ==
    {<<FOR, LPAREN>> \o init \o cond \o upd \o <<RPAREN>> \o b :
        init \in {<<SEMI>>,
                  <<ID("x"), OP("="), NUM("1"), SEMI>>,
                  <<ID("x"), OP("<"), NUM("1"), SEMI>>,
                  <<INT, ID("x"), OP("="), NUM("1"), SEMI>>},
        cond \in {<<SEMI>>, <<ID("x"), OP("<"), NUM("1"), SEMI>>},
        upd \in {<<>>,
                 <<ID("x"), OP("="), ID("x"), OP("+"), NUM("1")>>,
                 <<ID("x"), OP("+"), NUM("1")>>},
        b \in {<<ID("x"), SEMI>>, <<LBRACE, RBRACE>>}}

\* the other statements, with bare and braced bodies
ControlInputs ==
    LET cond == <<LPAREN, ID("x"), OP("<"), NUM("1"), RPAREN>>
        bodies == {<<ID("x"), OP("="), NUM("1"), SEMI>>, <<LBRACE, RBRACE>>,
                   <<LBRACE, ID("x"), SEMI, RBRACE>>, <<RBRACE>>}
    IN  {<<IF_>> \o cond \o b : b \in bodies}
        \cup {<<IF_>> \o cond \o b \o <<ELSE_>> \o c : b \in bodies, c \in bodies}
        \cup {<<WHILE>> \o cond \o b : b \in bodies}
        \cup {<<DO>> \o b \o <<WHILE>> \o cond \o <<SEMI>> : b \in bodies}
        \cup {<<RETURN, ID("x"), SEMI>>, <<RETURN, SEMI>>,
              <<INT, ID("x"), SEMI>>, <<INT, ID("x"), RBRACE>>}

Statements == ForInputs \cup ControlInputs

Inputs ==
    TokenLists(ExprAlphabet, MaxTokens)
    \cup TokenLists(StmtAlphabet, MaxTokens)
    \cup Chains(MaxOperators)
    \cup ProgramInputs(MaxTokens)
    \cup Statements
    \cup {Header \o s \o <<RBRACE>> : s \in Statements}

\* Parser(tokens)
ParseInit ==
    /\ tokens \in Inputs
    /\ pos = 0
    /\ error = None
    /\ ast = NoneNode
    /\ pc = "new"
    /\ stack = <<>>
    /\ node_count = 0
    /\ last_node = None
    /\ merge_stack = <<>>
    /\ nodes = <<>>
    /\ edges = <<>>
    /\ symbols = {}
    /\ errors = <<>>
    /\ visited = <<>>

\* the call of a method on the new parser ends: the node it returned or the
\* RuntimeError it raised, and the position it left
Call(method, self) ==
    /\ pc = "new"
    /\ pc' = method
    /\ ast' = IF Ok(self) THEN Last(self.values) ELSE NoneNode
    /\ pos' = self.pos
    /\ error' = self.raised
    /\ UNCHANGED <<tokens, stack, flowVars, semVars>>

Parse == Call("parse", parse(Parser(tokens)))
Stmt == Call("stmt", stmt(Parser(tokens)))
Expr == Call("expr", expr(Parser(tokens)))

ParseNext == Parse \/ Stmt \/ Expr

ParseSpec == ParseInit /\ [][ParseNext]_vars

(***************************************************************************)
(* Reading the graph.                                                      *)
(***************************************************************************)
OutOf(E, name) == {i \in DOMAIN E : E[i].tail = name}
InTo(E, name) == {i \in DOMAIN E : E[i].head = name}
HasEdge(E, e) == \E i \in DOMAIN E : E[i] = e
\* the position of the declaration of `name` in the node list N
Where(N, name) == CHOOSE i \in DOMAIN N : N[i].name = name
Declared(N, name) == \E i \in DOMAIN N : N[i].name = name
OfShape(N, from, shape) == {i \in from..Len(N) : N[i].shape = shape}

\* the statement list of main in the program
MainBlock == ast.children[1].children[3].children
MainIs(block) == ast = Program(CompoundStmt(block))

YIs1 == Assign("y", Num("1"))

\* a branch or body that walks at least one statement
NonEmpty(body) == body.type # "compound_stmt" \/ body.children # <<>>
\* a branch that is one assignment, bare or in braces
SingleAssign(body) ==
    \/ body.type = "assign"
    \/ /\ body.type = "compound_stmt"
       /\ Len(body.children) = 1
       /\ body.children[1].type = "assign"
\* a branch whose last statement is an if
EndsInIf(body) ==
    \/ body.type = "if_stmt"
    \/ /\ body.type = "compound_stmt"
       /\ body.children # <<>>
       /\ body.children[Len(body.children)].type = "if_stmt"

\* the running call is at position `at` of a node of type `type`
At(type, at) == Walking /\ Top.node.type = type /\ Top.at = at

(***************************************************************************)
(* C1. In every graph generate produces, every decision diamond has        *)
(* exactly two outgoing edges, one labeled "true" and one labeled "false". *)
(* The code does not keep this: the first node of an if-branch is also     *)
(* edged from the diamond by the cursor (flowchart.py 148-149, 161, 169).  *)
(***************************************************************************)
C1_DiamondHasTwoLabeledEdges ==
    pc = "done" =>
        \A i \in DOMAIN nodes :
            nodes[i].shape = "diamond" =>
                LET out == OutOf(edges, nodes[i].name) IN
                    /\ Cardinality(out) = 2
                    /\ \E t \in out : edges[t].label = "true"
                    /\ \E f \in out : edges[f].label = "false"

(***************************************************************************)
(* C2. For an if without else whose then-branch does not end in an if, the *)
(* build goes on, a new invisible join is declared, the then-exit is edged *)
(* into it, the diamond has a "true" edge to the then-entry and a "false"  *)
(* edge to the join, and the cursor is the join.  The code raises a        *)
(* NameError on the false edge instead (flowchart.py 197).                 *)
(***************************************************************************)
C2_NoElseJoin ==
    [][(At("if_stmt", "after_then") /\ Len(Top.node.children) = 2
            /\ ~EndsInIf(Top.node.children[2]))
        => LET join == nodes'[Len(nodes')]
               thenFirst == nodes[Where(nodes, Top.decision_id) + 1].name
           IN
            /\ pc' = "walk"
            /\ Len(nodes') = Len(nodes) + 1
            /\ join.shape = "point" /\ join.style = "invis"
            /\ HasEdge(edges', DotEdge(last_node, join.name, None))
            /\ NonEmpty(Top.node.children[2]) =>
                   HasEdge(edges', DotEdge(Top.decision_id, thenFirst, "true"))
            /\ HasEdge(edges', DotEdge(Top.decision_id, join.name, "false"))
            /\ last_node' = join.name]_vars

(***************************************************************************)
(* C3. For an if with else whose branches are one assignment each, the     *)
(* sub-graph built for it holds exactly one diamond, two boxes and one     *)
(* invisible join; the join has in-degree 2, one edge from each box; the   *)
(* cursor is the join afterwards.                                          *)
(***************************************************************************)
C3_IfElseOfAssignments ==
    [][(At("if_stmt", "after_else")
            /\ SingleAssign(Top.node.children[2])
            /\ SingleAssign(Top.node.children[3]))
        => LET d == Where(nodes, Top.decision_id)
               join == nodes'[Len(nodes')]
               in == InTo(edges', join.name)
           IN
            /\ Len(nodes') = d + 3
            /\ OfShape(nodes', d, "diamond") = {d}
            /\ OfShape(nodes', d, "box") = {d + 1, d + 2}
            /\ OfShape(nodes', d, "point") = {d + 3}
            /\ join.style = "invis"
            /\ Cardinality(in) = 2
            /\ {edges'[i].tail : i \in in} = {nodes[d + 1].name, nodes[d + 2].name}
            /\ last_node' = join.name]_vars

\* the graph of `if (x > 0) { y = 1; } else { y = 1; }` is complete
C3_Witness ==
    /\ pc = "done"
    /\ MainIs(<<IfElseStmt(XGreater0, CompoundStmt(<<YIs1>>), CompoundStmt(<<YIs1>>))>>)
    /\ Cardinality(InTo(edges, "node5")) = 2
    /\ nodes[5].shape = "point"

(***************************************************************************)
(* C4. For a while with a non-empty body the graph has a "true" edge from  *)
(* the condition diamond to the first node declared in the body, a back    *)
(* edge from the body's exit to the diamond, and a "false" edge from the   *)
(* diamond to a fresh invisible join that is neither Start nor End; the    *)
(* cursor is the join afterwards.                                          *)
(***************************************************************************)
C4_WhileEdges ==
    [][(At("while", "after_body") /\ NonEmpty(Top.node.children[2]))
        => LET c == Where(nodes, Top.cond_id)
               join == nodes'[Len(nodes')]
           IN
            /\ c < Len(nodes)
            /\ HasEdge(edges', DotEdge(Top.cond_id, nodes[c + 1].name, "true"))
            /\ last_node # None
            /\ HasEdge(edges', DotEdge(last_node, Top.cond_id, None))
            /\ Len(nodes') = Len(nodes) + 1
            /\ ~Declared(nodes, join.name)
            /\ join.shape = "point" /\ join.style = "invis"
            /\ join.label \notin {"Start", "End"}
            /\ HasEdge(edges', DotEdge(Top.cond_id, join.name, "false"))
            /\ last_node' = join.name]_vars

\* the graph of `while (x > 0) { y = 1; }` is complete
C4_Witness ==
    /\ pc = "done"
    /\ MainIs(<<WhileStmt(XGreater0, CompoundStmt(<<YIs1>>))>>)
    /\ HasEdge(edges, DotEdge("node3", "node2", None))
    /\ HasEdge(edges, DotEdge("node2", "node4", "false"))

(***************************************************************************)
(* C5. Every graph generate returns has exactly one oval "Start", with     *)
(* in-degree 0, and exactly one oval "End", with out-degree 0, and End is  *)
(* edged from the cursor left by the walk.                                 *)
(***************************************************************************)
C5_StartAndEnd ==
    pc = "done" =>
        LET starts == {i \in DOMAIN nodes : nodes[i].label = "Start"}
            ends == {i \in DOMAIN nodes : nodes[i].label = "End"}
            ovals == {i \in DOMAIN nodes : nodes[i].shape = "oval"}
        IN
            /\ starts = {1}
            /\ ends = {Len(nodes)}
            /\ ovals = {1, Len(nodes)} /\ Len(nodes) > 1
            /\ \A i, j \in DOMAIN nodes : nodes[i].name = nodes[j].name => i = j
            /\ InTo(edges, nodes[1].name) = {}
            /\ OutOf(edges, nodes[Len(nodes)].name) = {}
            /\ last_node # None
            /\ HasEdge(edges, DotEdge(last_node, nodes[Len(nodes)].name, None))

\* a graph is returned for a program with a loop as its last statement
C5_Witness ==
    /\ pc = "done"
    /\ Len(MainBlock) = 2
    /\ MainBlock[2].type = "while"

RECURSIVE Events(_), EventsOfAll(_)
Events(node) ==
    IF ~Truthy(node) THEN <<>>
    ELSE CASE node.type = "var_decl" ->
                <<[kind |-> "decl", name |-> node.children[2].value]>>
                \o (IF Len(node.children) = 3 THEN Events(node.children[3]) ELSE <<>>)
           [] node.type = "assign" ->
                <<[kind |-> "use", name |-> node.children[1].value]>>
                \o Events(node.children[2])
           [] node.type = "id" -> <<[kind |-> "use", name |-> node.value]>>
           [] OTHER -> EventsOfAll(node.children)
EventsOfAll(children) ==
    IF children = <<>> THEN <<>>
    ELSE Events(Head(children)) \o EventsOfAll(Tail(children))

Names == {"x", "y"}
Count(seq, v) == Cardinality({i \in DOMAIN seq : seq[i] = v})
Decls(ev, n) == Cardinality({i \in DOMAIN ev : ev[i] = [kind |-> "decl", name |-> n]})
DeclaredBeforeUse(ev) ==
    \A i \in DOMAIN ev :
        ev[i].kind = "use" =>
            \E j \in 1..(i - 1) : ev[j] = [kind |-> "decl", name |-> ev[i].name]
DeclaredOnce(ev) == \A n \in Names : Decls(ev, n) <= 1

(***************************************************************************)
(* C8. A var_decl whose name is in the symbol set when it is visited adds  *)
(* exactly one "already declared" diagnostic for the name and leaves the   *)
(* symbol set as it is; one whose name is new adds no diagnostic and       *)
(* inserts the name.  Over a whole program every declaration of a name but *)
(* the first is reported once, and `int x; int x;` yields exactly one      *)
(* diagnostic, "already declared" for x.                                   *)
(***************************************************************************)
C8_VarDecl ==
    /\ [][At("var_decl", "start") =>
            LET var_name == Top.node.children[2].value IN
                IF var_name \in symbols
                THEN /\ errors' = Append(errors, AlreadyDeclared(var_name))
                     /\ symbols' = symbols
                ELSE /\ errors' = errors
                     /\ symbols' = symbols \cup {var_name}]_vars
    /\ [](pc = "done" =>
            /\ \A n \in Names :
                 LET d == Decls(Events(ast), n) IN
                    /\ Count(errors, AlreadyDeclared(n)) = IF d = 0 THEN 0 ELSE d - 1
                    /\ n \in symbols <=> d > 0
            /\ MainIs(<<VarDecl("x", NoneNode), VarDecl("x", NoneNode)>>) =>
                 errors = <<AlreadyDeclared("x")>>)

\* `int x; int x;` has been analyzed
C8_Witness ==
    /\ pc = "done"
    /\ MainIs(<<VarDecl("x", NoneNode), VarDecl("x", NoneNode)>>)
    /\ errors = <<AlreadyDeclared("x")>>
    /\ symbols = {"x"}

(***************************************************************************)
(* C9. An assignment whose target is not in the symbol set adds exactly    *)
(* one "used before declaration" diagnostic for the target, and its right- *)
(* hand side is analyzed whether or not the target was declared; an        *)
(* identifier of an expression that is not in the symbol set adds its own  *)
(* diagnostic.  `y = 3;` alone yields exactly one diagnostic.              *)
(***************************************************************************)
C9_Assign ==
    /\ [][/\ At("assign", "start") =>
                LET var_name == Top.node.children[1].value IN
                    /\ errors' = IF var_name \in symbols THEN errors
                                 ELSE Append(errors, UsedBeforeDeclaration(var_name))
                    /\ symbols' = symbols
                    /\ Len(stack') = Len(stack) + 1
                    /\ stack'[Len(stack')].node = Top.node.children[2]
          /\ At("id", "start") =>
                /\ errors' = IF Top.node.value \in symbols THEN errors
                             ELSE Append(errors, UsedBeforeDeclaration(Top.node.value))
                /\ symbols' = symbols]_vars
    /\ [](pc = "done" =>
            /\ \A n \in Names :
                 Count(errors, UsedBeforeDeclaration(n)) =
                    LET ev == Events(ast) IN
                    Cardinality({i \in DOMAIN ev :
                        /\ ev[i] = [kind |-> "use", name |-> n]
                        /\ ~\E j \in 1..(i - 1) : ev[j] = [kind |-> "decl", name |-> n]})
            /\ MainIs(<<Assign("y", Num("3"))>>) =>
                 errors = <<UsedBeforeDeclaration("y")>>)

\* `y = 3; x = x * y;` has been analyzed with nothing declared: one
\* diagnostic for each target and one for each identifier on the right
C9_Witness ==
    /\ pc = "done"
    /\ MainIs(<<Assign("y", Num("3")), Assign("x", Term("*", Id("x"), Id("y")))>>)
    /\ errors = <<UsedBeforeDeclaration("y"), UsedBeforeDeclaration("x"),
                  UsedBeforeDeclaration("x"), UsedBeforeDeclaration("y")>>

RECURSIVE Visits(_), VisitsOfAll(_)
Visits(node) ==
    IF ~Truthy(node) THEN <<>>
    ELSE CASE node.type = "var_decl" ->
                <<node>> \o (IF Len(node.children) = 3
                             THEN Visits(node.children[3]) ELSE <<>>)
           [] node.type = "assign" -> <<node>> \o Visits(node.children[2])
           [] node.type = "id" -> <<node>>
           [] OTHER -> VisitsOfAll(node.children)
VisitsOfAll(children) ==
    IF children = <<>> THEN <<>>
    ELSE Visits(Head(children)) \o VisitsOfAll(Tail(children))

(***************************************************************************)
(* C11. On every AST of the parser, for nodes with absent header clauses    *)
(* included, analyze never raises; the diagnostic list is only appended     *)
(* to, one diagnostic at a time; the walk goes on after a diagnostic; and   *)
(* when analyze returns every var_decl, assign and expression identifier    *)
(* has been visited exactly once, in grammar order.                         *)
(***************************************************************************)
C11_AnalyzeNeverRaises ==
    /\ [](pc \in {"new", "walk", "done"})
    /\ [][/\ Len(errors') \in {Len(errors), Len(errors) + 1}
          /\ SubSeq(errors', 1, Len(errors)) = errors
          /\ errors' # errors => pc' = "walk"]_vars
    /\ [](pc = "walk" => ENABLED SemNext)
    /\ [](pc = "done" => visited = Visits(ast))

\* `for (;;) x = x * y;` has been analyzed: three diagnostics, three visits
C11_Witness ==
    /\ pc = "done"
    /\ MainIs(<<ForStmt(NoneNode, NoneNode, NoneNode,
                        Assign("x", Term("*", Id("x"), Id("y"))))>>)
    /\ Len(errors) = 3
    /\ visited = <<Assign("x", Term("*", Id("x"), Id("y"))), Id("x"), Id("y")>>

(***************************************************************************)
(* Reading the token list.                                                  *)
(***************************************************************************)
\* the text of the tokens from..to, as the lexer read them
Texts(toks, from, to) == [i \in 1..(to - from + 1) |-> toks[from + i - 1].value]

\* the index of the first SEMI at or after from, 0 if there is none
FirstSemi(toks, from) ==
    LET semis == {k \in from..Len(toks) : toks[k].type = "SEMI"} IN
    IF semis = {} THEN 0 ELSE CHOOSE k \in semis : \A j \in semis : k <= j

IsAt(toks, k, tok) == k <= Len(toks) /\ toks[k] = tok
TypeAt(toks, k, type) == k <= Len(toks) /\ toks[k].type = type

(***************************************************************************)
(* C12. A statement that begins with an identifier is decided by the one    *)
(* token after it.  If that token is the operator `=`, stmt gives an        *)
(* assign node to that identifier (or the error of parsing the              *)
(* assignment).  Otherwise, with a semicolon ahead, it gives a stmt node    *)
(* whose value is the text of the tokens from the identifier through the    *)
(* first semicolon, and leaves the position just after that semicolon; in   *)
(* a program, it is the first statement of main's block and the next        *)
(* statement is parsed from the token after the semicolon.                  *)
(***************************************************************************)
C12_IdLookahead ==
    /\ (pc = "stmt" /\ TypeAt(tokens, 1, "ID")) =>
          IF IsAt(tokens, 2, OP("="))
          THEN \/ error # None /\ ast = NoneNode
               \/ /\ error = None
                  /\ ast.type = "assign"
                  /\ ast.children[1] = Id(tokens[1].value)
          ELSE LET k == FirstSemi(tokens, 1) IN
               k # 0 => /\ error = None
                        /\ ast = GenericStmt(Join(Texts(tokens, 1, k)))
                        /\ pos = k
    /\ (pc = "parse" /\ error = None /\ TypeAt(tokens, 6, "ID")
        /\ ~IsAt(tokens, 7, OP("="))) =>
          LET k == FirstSemi(tokens, 6)
              block == ast.children[1].children[3].children
          IN  /\ k # 0
              /\ block[1] = GenericStmt(Join(Texts(tokens, 6, k)))
              /\ TypeAt(tokens, k + 1, "ID") =>
                    /\ Len(block) >= 2
                    /\ block[2].type =
                          IF IsAt(tokens, k + 2, OP("=")) THEN "assign" ELSE "stmt"
              /\ TypeAt(tokens, k + 1, "RBRACE") => Len(block) = 1

\* `x < 1 ; }` read as a statement: the stmt node "x < 1 ;", the brace left
C12_Witness ==
    /\ pc = "stmt"
    /\ tokens = <<ID("x"), OP("<"), NUM("1"), SEMI, RBRACE>>
    /\ ast = GenericStmt("x < 1 ;")
    /\ pos = 4
    /\ error = None

(***************************************************************************)
(* The expression grammar, as a relation between a tree and the tokens it   *)
(* is derived from.  rule is "expr", "arith_expr", "term" or "factor":      *)
(*     expr       -> arith_expr [ cmp arith_expr ]                          *)
(*     arith_expr -> arith_expr addop term | term                           *)
(*     term       -> term mulop factor | factor                             *)
(*     factor     -> NUM | ID | '(' expr ')'                                *)
(* The left recursion is the left associativity, the order of the rules the *)
(* precedence.                                                              *)
(***************************************************************************)
RECURSIVE Derives(_, _, _)
Derives(node, toks, rule) ==
    LET n == Len(toks)
        Split(type, ops, left, right) ==
            /\ node.type = type
            /\ \E k \in 2..(n - 1) :
                  /\ IsOp(toks[k], ops)
                  /\ node.value = toks[k].value
                  /\ Derives(node.children[1], SubSeq(toks, 1, k - 1), left)
                  /\ Derives(node.children[2], SubSeq(toks, k + 1, n), right)
    IN  CASE rule = "expr" ->
                \/ Derives(node, toks, "arith_expr")
                \/ Split("comparison", CmpOps, "arith_expr", "arith_expr")
          [] rule = "arith_expr" ->
                \/ Derives(node, toks, "term")
                \/ Split("arith_expr", AddOps, "arith_expr", "term")
          [] rule = "term" ->
                \/ Derives(node, toks, "factor")
                \/ Split("term", MulOps, "term", "factor")
          [] rule = "factor" ->
                \/ n = 1 /\ toks[1].type = "NUM" /\ node = Num(toks[1].value)
                \/ n = 1 /\ toks[1].type = "ID" /\ node = Id(toks[1].value)
                \/ /\ n >= 3
                   /\ toks[1] = LPAREN
                   /\ toks[n] = RPAREN
                   /\ Derives(node, SubSeq(toks, 2, n - 1), "expr")

(***************************************************************************)
(* C13. When expr returns, the tree is the one the expression grammar       *)
(* derives from the tokens consumed: * / % bind tighter than + -, both      *)
(* associate to the left, a parenthesized expression is a factor.  expr     *)
(* stops before a token it cannot take: never before an additive or         *)
(* multiplicative operator, and before a comparison operator only when      *)
(* the tokens consumed already hold the one comparison of the expression.   *)
(* So a - 1 - a is (a - 1) - a, a - 1 * a is a - (1 * a), and of            *)
(* a < 1 < a only a < 1 is consumed.                                        *)
(***************************************************************************)
C13_Precedence ==
    (pc = "expr" /\ error = None) =>
        LET taken == SubSeq(tokens, 1, pos)
            ahead == current([Parser(tokens) EXCEPT !.pos = pos])
            a == Id("a")
            one == Num("1")
        IN  /\ pos \in 1..Len(tokens)
            /\ Derives(ast, taken, "expr")
            /\ ~IsOp(ahead, AddOps \cup MulOps)
            /\ IsOp(ahead, CmpOps) =>
                  ast.type = "comparison" /\ ~Derives(ast, taken, "arith_expr")
            /\ tokens = <<ID("a"), OP("-"), NUM("1"), OP("-"), ID("a")>> =>
                  ast = ArithExpr("-", ArithExpr("-", a, one), a)
            /\ tokens = <<ID("a"), OP("-"), NUM("1"), OP("*"), ID("a")>> =>
                  ast = ArithExpr("-", a, Term("*", one, a))
            /\ tokens = <<ID("a"), OP("*"), NUM("1"), OP("-"), ID("a")>> =>
                  ast = ArithExpr("-", Term("*", a, one), a)
            /\ tokens = <<ID("a"), OP("/"), NUM("1"), OP("%"), ID("a")>> =>
                  ast = Term("%", Term("/", a, one), a)
            /\ tokens = <<ID("a"), OP("<"), NUM("1"), OP("<"), ID("a")>> =>
                  ast = Comparison("<", a, one) /\ pos = 3
            /\ tokens = <<ID("a"), OP("*"), LPAREN, ID("a"), OP("-"), NUM("1"),
                          RPAREN>> =>
                  ast = Term("*", a, ArithExpr("-", a, one))

\* a - 1 - a has been parsed as (a - 1) - a
C13_Witness ==
    /\ pc = "expr"
    /\ tokens = <<ID("a"), OP("-"), NUM("1"), OP("-"), ID("a")>>
    /\ error = None
    /\ pos = 5
    /\ ast = ArithExpr("-", ArithExpr("-", Id("a"), Num("1")), Id("a"))

\* the token kinds a parser method can expect
TokenKinds ==
    {"INT", "MAIN", "IF", "ELSE", "WHILE", "FOR", "DO", "RETURN", "ID", "NUM",
     "OP", "LPAREN", "RPAREN", "LBRACE", "RBRACE", "SEMI"}

(***************************************************************************)
(* C14. parse returns a tree only when the whole token list is a program:   *)
(* every token has been consumed.  On any other list it raises, at the      *)
(* token that breaks the grammar, an error that names the token kind        *)
(* expected and the token found.  The position never decreases.             *)
(***************************************************************************)
C14_ParseWholeSequence ==
    /\ [](pc = "parse" =>
            /\ error = None => ast.type = "program" /\ pos = Len(tokens)
            /\ error # None =>
                  /\ ast = NoneNode
                  /\ \E kind \in TokenKinds :
                        error = ExpectedButGot(kind,
                                               current([Parser(tokens) EXCEPT !.pos = pos])))
    /\ [][pos' >= pos]_vars

\* the ids allocated while node_count went from `before` to `after`
Allocated(before, after) == {NodeId(n) : n \in (before + 1)..after}

\* the edges declared by the step, and the one with the given label
Drawn == SubSeq(edges', Len(edges) + 1, Len(edges'))
DrawnWith(label) ==
    LET at == {i \in 1..Len(Drawn) : Drawn[i].label = label} IN
    Drawn[CHOOSE i \in at : TRUE]

(***************************************************************************)
(* C15. When an if with an else-branch draws its labeled edges, the "true"  *)
(* edge goes to the first node allocated during the walk of the             *)
(* then-branch and the "false" edge to the first node allocated during the  *)
(* walk of the else-branch, whenever the walk allocated one; and, the       *)
(* then-branch being an empty block or not, the "true" edge never goes to   *)
(* a node allocated during the walk of the else-branch.                     *)
(***************************************************************************)
C15_BranchEntries ==
    [][IfElseMerge =>
         LET in_then == Allocated(Top.before_then, Top.before_else)
             in_else == Allocated(Top.before_else, node_count)
             true == DrawnWith("true")
             false == DrawnWith("false")
         IN  /\ true.tail = Top.decision_id
             /\ false.tail = Top.decision_id
             /\ in_then # {} => true.head = NodeId(Top.before_then + 1)
             /\ in_else # {} => false.head = NodeId(Top.before_else + 1)
             /\ true.head \notin in_else]_vars

\* the assign nodes of a tree, a node before its children
RECURSIVE Assigns(_), AssignsOfAll(_)
Assigns(node) ==
    (IF node.type = "assign" THEN <<node>> ELSE <<>>) \o AssignsOfAll(node.children)
AssignsOfAll(children) ==
    IF children = <<>> THEN <<>>
    ELSE Assigns(Head(children)) \o AssignsOfAll(Tail(children))

\* the places among the first `to` tokens where an identifier is followed by
\* the operator `=`
AssignShapes(toks, to) ==
    {i \in 1..(to - 1) : toks[i].type = "ID" /\ toks[i + 1] = OP("=")}

(***************************************************************************)
(* C16. Every assign node of a tree the parser returns, be it a statement,  *)
(* the init clause or the update clause of a for, comes from an identifier  *)
(* followed by the operator `=`: the tree holds no more assign nodes than   *)
(* the consumed tokens hold such places, and the target of each is the      *)
(* identifier of one of them.  An identifier followed by another operator   *)
(* gives no assign node.                                                    *)
(***************************************************************************)
C16_AssignOnlyFromEquals ==
    (pc \in {"stmt", "parse"} /\ error = None) =>
        LET assigns == Assigns(ast)
            shapes == AssignShapes(tokens, pos)
        IN  /\ Len(assigns) <= Cardinality(shapes)
            /\ \A j \in 1..Len(assigns) :
                  \E i \in shapes : assigns[j].children[1] = Id(tokens[i].value)

(***************************************************************************)
(* C17. When a build has ended, both endpoints of every edge of the graph   *)
(* are ids of nodes declared in it, for loops with empty bodies and ifs     *)
(* with empty branches included: no edge has an absent endpoint or one      *)
(* that was never allocated.  The ids of the declared nodes are pairwise    *)
(* distinct, and the id counter only increases.                             *)
(***************************************************************************)
C17_EdgeEndpointsDeclared ==
    /\ [](pc = "done" =>
            \A i \in DOMAIN edges :
                /\ edges[i].tail # None
                /\ edges[i].head # None
                /\ Declared(nodes, edges[i].tail)
                /\ Declared(nodes, edges[i].head))
    /\ [](\A i, j \in DOMAIN nodes : i # j => nodes[i].name # nodes[j].name)
    /\ [][node_count' >= node_count]_vars

====
